---- MODULE Spec2Model ----
(***************************************************************************)
(* A model of crates/dekaf/src/topology.rs: the assembly of a Collection   *)
(* (Collection::new), the stable partition order (fetch_partitions), the   *)
(* offset resolver (fetch_partition_offset) and the schema registry        *)
(* client (registered_schema_id).                                          *)
(*                                                                         *)
(* The metadata store (live_specs_ext, registered_avro_schemas, the        *)
(* gateway_auth_token RPC) and the journal broker (List, ListFragments)    *)
(* are the environment: they are modelled by the variables liveSpecs,      *)
(* registry, journals and fragments and by the responses the actions draw. *)
(***************************************************************************)
EXTENDS Integers, Sequences, FiniteSets, TLC

(***************************************************************************)
(* Bounds of the model.                                                    *)
(***************************************************************************)
\* Collection::new invocations against a broker whose journals stay as they are.
NumNewCalls == 1
\* Journals that broker holds.
MaxListed == 3
\* Collection::new invocations against a broker whose set of journals grows.
NumSnapshots == 2
\* Journals that broker may come to hold.
MaxJournals == 2

(***************************************************************************)
(* Journal names.  A Rust String is compared byte-wise, so a name is the   *)
(* sequence of its bytes.  Journals of one collection share the collection *)
(* name as a prefix, which the model leaves out of the compared bytes.     *)
(***************************************************************************)
\* "part-000", "part-001", "part-002"
part_000 == <<112, 97, 114, 116, 45, 48, 48, 48>>
part_001 == <<112, 97, 114, 116, 45, 48, 48, 49>>
part_002 == <<112, 97, 114, 116, 45, 48, 48, 50>>

JournalNames == {part_000, part_001, part_002}

\* The journals the broker may come to hold, as <<collection, name>>.
JournalSlots ==
    ({"acme/clicks"} \X JournalNames) \cup {<<"acme/visits", part_000>>}

\* The collections a caller may name.
Collections == {"acme/clicks", "acme/visits"}

\* create_revision values the broker's store hands out.
Revisions == {3, 5}

(***************************************************************************)
(* Ord for i64, String and the tuple (i64, &String), as used by sort_by.   *)
(* The result is -1 (Less), 0 (Equal) or 1 (Greater).                      *)
(***************************************************************************)
CmpInt(a, b) == IF a < b THEN -1 ELSE IF a > b THEN 1 ELSE 0

RECURSIVE CmpStr(_, _)
CmpStr(s, t) ==
    IF s = <<>> /\ t = <<>> THEN 0
    ELSE IF s = <<>> THEN -1
    ELSE IF t = <<>> THEN 1
    ELSE IF Head(s) # Head(t) THEN CmpInt(Head(s), Head(t))
    ELSE CmpStr(Tail(s), Tail(t))

\* A mutated comparator: the name first, and then the created revision.
PartitionCmpNameFirst(l, r) ==
    LET c == CmpStr(l.name, r.name)
    IN  IF c # 0 THEN c ELSE CmpInt(l.create_revision, r.create_revision)

\* (l.create_revision, &l.spec.name).cmp(&(r.create_revision, &r.spec.name))
PartitionCmp(l, r) ==
    LET c == CmpInt(l.create_revision, r.create_revision)
    IN  IF c # 0 THEN c ELSE CmpStr(l.name, r.name)

\* Insert p into the sorted sequence s, after every element not greater
\* than it (slice::sort_by is a stable sort).
RECURSIVE InsertSorted(_, _)
InsertSorted(s, p) ==
    IF s = <<>> THEN <<p>>
    ELSE IF PartitionCmp(p, Head(s)) < 0 THEN <<p>> \o s
    ELSE <<Head(s)>> \o InsertSorted(Tail(s), p)

\* partitions.sort_by(...)
RECURSIVE SortPartitions(_)
SortPartitions(s) ==
    IF s = <<>> THEN <<>>
    ELSE InsertSorted(SortPartitions(SubSeq(s, 1, Len(s) - 1)), s[Len(s)])

(***************************************************************************)
(* Avro schemas.  An avro::Schema is the parsed schema: its name, type and *)
(* fields (in order) and its documentation, which is no part of the        *)
(* canonical form.                                                         *)
(***************************************************************************)
SchemaString == [name |-> "k", type |-> "string", fields |-> "", doc |-> ""]
SchemaStringDoc ==
    [name |-> "k", type |-> "string", fields |-> "", doc |-> "the key"]
SchemaRecordAB ==
    [name |-> "root", type |-> "record", fields |-> "a,b", doc |-> ""]
SchemaRecordBA ==
    [name |-> "root", type |-> "record", fields |-> "b,a", doc |-> ""]

Schemas == {SchemaString, SchemaStringDoc, SchemaRecordAB, SchemaRecordBA}

\* The JSON schema texts a built spec may carry; "" is an unpublished read
\* schema and "invalid" has no Avro form.
NoSchema == [name |-> "", type |-> "", fields |-> "", doc |-> ""]
JsonSchemas == {"", "string-key", "documented-key", "invalid"}

\* avro::json_schema_to_avro(json_schema, &key_ptr): an error, or the
\* (key_schema, value_schema) pair.
JsonSchemaToAvro(json) ==
    IF json \in {"", "invalid"} THEN [ok |-> FALSE]
    ELSE IF json = "string-key"
         THEN [ok |-> TRUE, key_schema |-> SchemaString, value_schema |-> SchemaRecordAB]
         ELSE [ok |-> TRUE, key_schema |-> SchemaStringDoc, value_schema |-> SchemaRecordAB]

\* The built_spec a row of live_specs_ext may carry.
BuiltSpecs ==
    { [read_schema_json |-> r, write_schema_json |-> w] :
        r \in {"", "documented-key", "invalid"}, w \in {"string-key"} }

\* uuid::Clock::default().to_unix().0, in whole seconds: the floor below which
\* a gateway exposes no data.  It is fixed for a gateway.
ClockSeconds == {0, 1, 2}

(***************************************************************************)
(* State.                                                                  *)
(***************************************************************************)
VARIABLES
    journals,     \* broker: the journals, [collection, name, create_revision, mod_revision]
    fragments,    \* broker: <<collection, name>> -> the fragments of that journal, by offset
    liveSpecs,    \* store: live_specs_ext, collection -> the rows (built_spec) of that name
    registry,     \* store: registered_avro_schemas, the rows in order of insertion
    unique_md5,   \* store: whether avro_schema_md5 is under a uniqueness constraint
    default_clock,\* uuid::Clock::default(), in seconds
    newCalls,     \* the Collection::new invocations
    offCalls,     \* the fetch_partition_offset invocations
    regCalls      \* the registered_schema_id invocations

vars == <<journals, fragments, liveSpecs, registry, unique_md5, default_clock, newCalls, offCalls, regCalls>>

IdleNew ==
    [ pc |-> "idle", collection |-> "", not_before |-> 0,
      spec |-> "idle", built_spec |-> <<>>,
      client_partitions |-> "idle", partitions |-> <<>>,
      client_error |-> "", auth_requests |-> <<>>, list_requests |-> <<>>,
      outcome |-> "pending", error |-> "",
      key_schema |-> NoSchema, value_schema |-> NoSchema ]

\* The journals a ListRequest with the selector include = {collection} matches.
ListJournals(collection) == { j \in journals : j.collection = collection }

\* All orders in which the broker may list the set S.
Listings(S) ==
    { s \in [1 .. Cardinality(S) -> S] : \A i, k \in 1 .. Cardinality(S) : i # k => s[i] # s[k] }

\* Partition { create_revision, spec, _mod_revision, _route } of a listed journal.
Partition(journal) ==
    [ create_revision |-> journal.create_revision,
      name |-> journal.name,
      mod_revision |-> journal.mod_revision ]

\* A mutant of FetchPartitions: the partitions are kept in the listed order.
FetchPartitionsUnsorted(listing) ==
    [ i \in 1 .. Len(listing) |-> Partition(listing[i]) ]

\* fetch_partitions, from the broker's response on: one Partition for each
\* listed journal, and the sort.
FetchPartitions(listing) ==
    SortPartitions([ i \in 1 .. Len(listing) |-> Partition(listing[i]) ])

\* The schema text Collection::new converts: the read schema, and the write
\* schema when no read schema is published.
SelectJsonSchema(built_spec) ==
    IF built_spec.read_schema_json = ""
    THEN built_spec.write_schema_json
    ELSE built_spec.read_schema_json

\* A mutant of NewOutcome: a failed authorization or listing is reported
\* before the specification rows are looked at.
NewOutcomeClientFirst(call) ==
    IF call.spec = "Err" THEN [call EXCEPT !.pc = "returned", !.outcome = "Err", !.error = "spec"]
    ELSE IF call.client_partitions = "Err"
    THEN [call EXCEPT !.pc = "returned", !.outcome = "Err", !.error = call.client_error]
    ELSE IF call.spec = "None" THEN [call EXCEPT !.pc = "returned", !.outcome = "None"]
    ELSE LET avro == JsonSchemaToAvro(SelectJsonSchema(call.built_spec[1]))
         IN  IF ~avro.ok
             THEN [call EXCEPT !.pc = "returned", !.outcome = "Err", !.error = "schema"]
             ELSE [call EXCEPT !.pc = "returned", !.outcome = "Some",
                               !.key_schema = avro.key_schema,
                               !.value_schema = avro.value_schema]

\* A mutant of NewOutcome: the schema is converted before the result of the
\* authorization and listing is looked at.
NewOutcomeSchemaFirst(call) ==
    IF call.spec = "Err" THEN [call EXCEPT !.pc = "returned", !.outcome = "Err", !.error = "spec"]
    ELSE IF call.spec = "None" THEN [call EXCEPT !.pc = "returned", !.outcome = "None"]
    ELSE LET avro == JsonSchemaToAvro(SelectJsonSchema(call.built_spec[1]))
         IN  IF ~avro.ok
             THEN [call EXCEPT !.pc = "returned", !.outcome = "Err", !.error = "schema"]
             ELSE IF call.client_partitions = "Err"
             THEN [call EXCEPT !.pc = "returned", !.outcome = "Err", !.error = call.client_error]
             ELSE [call EXCEPT !.pc = "returned", !.outcome = "Some",
                               !.key_schema = avro.key_schema,
                               !.value_schema = avro.value_schema]

\* Collection::new after futures::join!: `spec?`, `else { return Ok(None) }`,
\* `client_partitions?`, the schema conversion and Ok(Some(Self { .. })).
NewOutcome(call) ==
    IF call.spec = "Err" THEN [call EXCEPT !.pc = "returned", !.outcome = "Err", !.error = "spec"]
    ELSE IF call.spec = "None" THEN [call EXCEPT !.pc = "returned", !.outcome = "None"]
    ELSE IF call.client_partitions = "Err"
    THEN [call EXCEPT !.pc = "returned", !.outcome = "Err", !.error = call.client_error]
    ELSE LET avro == JsonSchemaToAvro(SelectJsonSchema(call.built_spec[1]))
         IN  IF ~avro.ok
             THEN [call EXCEPT !.pc = "returned", !.outcome = "Err", !.error = "schema"]
             ELSE [call EXCEPT !.pc = "returned", !.outcome = "Some",
                               !.key_schema = avro.key_schema,
                               !.value_schema = avro.value_schema]

\* A mutant of Join: the invocation goes on as soon as the specification
\* lookup has completed with no row.
JoinUnlessNoRow(call) ==
    IF \/ call.spec = "None"
       \/ call.spec \in {"Err", "Some"} /\ call.client_partitions \in {"Err", "Ok"}
    THEN NewOutcome(call)
    ELSE call

\* A mutant of Join: as with try_join!, the invocation goes on as soon as
\* either future has failed.
JoinUnlessErr(call) ==
    IF \/ call.spec = "Err"
       \/ call.client_partitions = "Err"
       \/ call.spec \in {"None", "Some"} /\ call.client_partitions = "Ok"
    THEN NewOutcome(call)
    ELSE call

\* futures::join!(fetch_spec, client_partitions): the invocation goes on only
\* when both futures have completed.
Join(call) ==
    IF call.spec \in {"Err", "None", "Some"} /\ call.client_partitions \in {"Err", "Ok"}
    THEN NewOutcome(call)
    ELSE call

(***************************************************************************)
(* Collection::new                                                         *)
(***************************************************************************)
\* A mutant of New: the journal client of an earlier invocation for the
\* collection is kept and used again, and no authorization is requested.
NewCachingClient(c, collection) ==
    /\ newCalls[c].pc = "idle"
    /\ \A d \in DOMAIN newCalls : d < c => newCalls[d].pc # "idle"
    /\ LET earlier == { d \in DOMAIN newCalls :
                          /\ newCalls[d].collection = collection
                          /\ newCalls[d].list_requests # <<>> }
           fresh == [ IdleNew EXCEPT
                        !.pc = "running",
                        !.collection = collection,
                        !.not_before = default_clock,
                        !.spec = "fetching",
                        !.client_partitions = "auth",
                        !.auth_requests = <<[prefixes |-> <<collection>>]>> ]
       IN  newCalls' = [newCalls EXCEPT ![c] =
             IF earlier = {} THEN fresh
             ELSE [ fresh EXCEPT
                      !.client_partitions = "list",
                      !.auth_requests = <<>>,
                      !.list_requests = newCalls[CHOOSE d \in earlier : TRUE].list_requests ]]
    /\ UNCHANGED <<journals, fragments, liveSpecs, registry, unique_md5, default_clock, offCalls, regCalls>>

\* A caller invokes Collection::new(client, collection): the first poll of
\* join! sends the specification query and the gateway_auth_token request.
New(c, collection) ==
    /\ newCalls[c].pc = "idle"
    /\ \A d \in DOMAIN newCalls : d < c => newCalls[d].pc # "idle"
    /\ newCalls' = [newCalls EXCEPT ![c] =
            [ IdleNew EXCEPT
                !.pc = "running",
                !.collection = collection,
                !.not_before = default_clock,
                !.spec = "fetching",
                !.client_partitions = "auth",
                !.auth_requests = <<[prefixes |-> <<collection>>]>> ]]
    /\ UNCHANGED <<journals, fragments, liveSpecs, registry, unique_md5, default_clock, offCalls, regCalls>>

\* fetch_spec: the store answers the live_specs_ext query.
FetchSpecRespond(c) ==
    /\ newCalls[c].pc = "running"
    /\ newCalls[c].spec = "fetching"
    /\ \E ok \in BOOLEAN :
         LET call == newCalls[c]
             rows == liveSpecs[call.collection]
             done == IF ~ok THEN [call EXCEPT !.spec = "Err"]
                     ELSE IF rows = <<>> THEN [call EXCEPT !.spec = "None"]
                     ELSE [call EXCEPT !.spec = "Some", !.built_spec = <<rows[Len(rows)]>>]
         IN  newCalls' = [newCalls EXCEPT ![c] = Join(done)]
    /\ UNCHANGED <<journals, fragments, liveSpecs, registry, unique_md5, default_clock, offCalls, regCalls>>

\* build_journal_client: the store answers the gateway_auth_token request;
\* with a token, which the store mints for this request, the journal client
\* is built and fetch_partitions sends its ListRequest through it.
AuthRespond(c) ==
    /\ newCalls[c].pc = "running"
    /\ newCalls[c].client_partitions = "auth"
    /\ \E ok \in BOOLEAN :
         LET call == newCalls[c]
             done == IF ~ok
                     THEN [call EXCEPT !.client_partitions = "Err", !.client_error = "auth"]
                     ELSE [call EXCEPT
                             !.client_partitions = "list",
                             !.list_requests =
                                 <<[include |-> call.collection, token |-> c]>>]
         IN  newCalls' = [newCalls EXCEPT ![c] = Join(done)]
    /\ UNCHANGED <<journals, fragments, liveSpecs, registry, unique_md5, default_clock, offCalls, regCalls>>

\* A mutant of ListOutcome: a journal that lacks its spec or its route is
\* left out and the others are kept.
ListOutcomeSkipLacking(call, listing, lacking) ==
    [call EXCEPT !.client_partitions = "Ok",
                 !.partitions = FetchPartitions(
                     SelectSeq(listing, LAMBDA journal : journal.name # lacking))]

\* fetch_partitions, from the broker's response on: the loop over
\* response.journals fails at a journal that lacks its spec or its route
\* (lacking is its name, and <<>> when every journal has both), and else
\* the partitions are sorted and returned.
ListOutcome(call, listing, lacking) ==
    IF \E i \in 1 .. Len(listing) : listing[i].name = lacking
    THEN [call EXCEPT !.client_partitions = "Err", !.client_error = "journal"]
    ELSE [call EXCEPT !.client_partitions = "Ok",
                      !.partitions = FetchPartitions(listing)]

\* fetch_partitions: the request fails, or the broker lists the journals, in
\* an order of its choosing; one of them may come without its spec or its
\* route.
ListRespond(c) ==
    /\ newCalls[c].pc = "running"
    /\ newCalls[c].client_partitions = "list"
    /\ LET call == newCalls[c] IN
       \/ newCalls' = [newCalls EXCEPT ![c] =
              Join([call EXCEPT !.client_partitions = "Err", !.client_error = "list"])]
       \/ \E listing \in Listings(ListJournals(call.collection)) :
            \E lacking \in {<<>>} \cup { j.name : j \in ListJournals(call.collection) } :
                newCalls' = [newCalls EXCEPT ![c] = Join(ListOutcome(call, listing, lacking))]
    /\ UNCHANGED <<journals, fragments, liveSpecs, registry, unique_md5, default_clock, offCalls, regCalls>>

(***************************************************************************)
(* The environment of Collection::new                                      *)
(***************************************************************************)
\* The broker creates a journal.
CreateJournal(slot, revision) ==
    /\ Cardinality(journals) < MaxJournals
    /\ \A j \in journals : <<j.collection, j.name>> # slot
    /\ journals' = journals \cup
          { [ collection |-> slot[1], name |-> slot[2],
              create_revision |-> revision, mod_revision |-> revision ] }
    /\ UNCHANGED <<fragments, liveSpecs, registry, unique_md5, default_clock, newCalls, offCalls, regCalls>>

\* live_specs_ext: "acme/clicks" is published or not, and "acme/visits" is
\* not a collection (its name matches no row).
LiveSpecs ==
    { rows \in [Collections -> {<<>>} \cup { <<b>> : b \in BuiltSpecs }] :
        rows["acme/visits"] = <<>> }

\* The journals a broker may hold: no two of one collection share a name.
JournalSets(slots, max) ==
    { S \in SUBSET { [ collection |-> slot[1], name |-> slot[2],
                       create_revision |-> r, mod_revision |-> r ] :
                         slot \in slots, r \in Revisions } :
        /\ Cardinality(S) <= max
        /\ \A j, k \in S : (j.collection = k.collection /\ j.name = k.name) => j = k }

\* Collections are assembled against a broker whose journals stay as they are.
InitAssemble ==
    /\ journals \in JournalSets(JournalSlots, MaxListed)
    /\ liveSpecs \in LiveSpecs
    /\ default_clock \in {2}
    /\ newCalls = [c \in 1 .. NumNewCalls |-> IdleNew]
    /\ fragments = [slot \in JournalSlots |-> <<>>]
    /\ registry = <<>>
    /\ unique_md5 = TRUE
    /\ offCalls = <<>>
    /\ regCalls = <<>>

NextAssemble ==
    \/ \E c \in DOMAIN newCalls, collection \in Collections : New(c, collection)
    \/ \E c \in DOMAIN newCalls : FetchSpecRespond(c)
    \/ \E c \in DOMAIN newCalls : AuthRespond(c)
    \/ \E c \in DOMAIN newCalls : ListRespond(c)

SpecAssemble == InitAssemble /\ [][NextAssemble]_vars

\* The collection "acme/clicks" is assembled again and again while the
\* broker creates journals.
InitGrowth ==
    /\ journals = {}
    /\ liveSpecs \in { rows \in LiveSpecs :
                         /\ rows["acme/clicks"] # <<>>
                         /\ rows["acme/clicks"][1].read_schema_json = "" }
    /\ default_clock \in {2}
    /\ newCalls = [c \in 1 .. NumSnapshots |-> IdleNew]
    /\ fragments = [slot \in JournalSlots |-> <<>>]
    /\ registry = <<>>
    /\ unique_md5 = TRUE
    /\ offCalls = <<>>
    /\ regCalls = <<>>

NextGrowth ==
    \/ \E c \in DOMAIN newCalls : New(c, "acme/clicks")
    \/ \E c \in DOMAIN newCalls : FetchSpecRespond(c)
    \/ \E c \in DOMAIN newCalls : AuthRespond(c)
    \/ \E c \in DOMAIN newCalls : ListRespond(c)
    \/ \E name \in JournalNames, revision \in Revisions :
         CreateJournal(<<"acme/clicks", name>>, revision)

SpecGrowth == InitGrowth /\ [][NextGrowth]_vars

(***************************************************************************)
(* fetch_partition_offset                                                  *)
(***************************************************************************)
\* fetch_partition_offset invocations.
NumOffsetCalls == 1

\* i64::MAX.  The checker's integers are narrower than i64: this is the
\* greatest of them, above every modification time of the model.
I64_MAX == 2147483647

\* The timestamp_millis a client may pass: the sentinels -1 and -2, and
\* literal timestamps.
Timestamps == {-1, -2, -2500, -500, 0, 999, 1000, 1999, 2000, 3000}

\* The partition_index a client may pass.
PartitionIndexes == {0, 1, 2}

\* The fragments a journal may have, in offset order: [begin, end) and the
\* modification time, which is zero while the fragment is not persisted.
FragmentLists ==
    { <<>>,
      << [begin |-> 0, end |-> 7, mod_time |-> 0] >>,
      << [begin |-> 0, end |-> 5, mod_time |-> 1] >>,
      << [begin |-> 4, end |-> 9, mod_time |-> 2] >>,
      << [begin |-> 0, end |-> 5, mod_time |-> 1], [begin |-> 5, end |-> 9, mod_time |-> 3] >>,
      << [begin |-> 4, end |-> 6, mod_time |-> 2], [begin |-> 6, end |-> 8, mod_time |-> 0] >> }

IdleOffset ==
    [ pc |-> "idle", collection |-> 0, partition_index |-> 0, timestamp_millis |-> 0,
      requests |-> <<>>, list_fragments |-> "idle", response |-> <<>>,
      outcome |-> "pending", offset |-> 0, mod_time |-> 0 ]

\* Integer division of i64: the quotient is truncated towards zero.
TruncDiv(a, b) == IF a >= 0 THEN a \div b ELSE -((-a) \div b)

\* A mutant of PartitionGet: an index past the end names the last partition.
PartitionGetClamped(partitions, partition_index) ==
    IF partitions = <<>> THEN <<>>
    ELSE IF partition_index < Len(partitions) THEN <<partitions[partition_index + 1]>>
    ELSE <<partitions[Len(partitions)]>>

\* self.partitions.get(partition_index): Some(partition) or None.
PartitionGet(partitions, partition_index) ==
    IF partition_index < Len(partitions) THEN <<partitions[partition_index + 1]>> ELSE <<>>

\* A mutant of BeginModTime: a literal timestamp is not raised to not_before.
BeginModTimeUnclamped(timestamp_millis, not_before_sec) ==
    IF timestamp_millis = -1 THEN I64_MAX
    ELSE IF timestamp_millis = -2 THEN 0
    ELSE TruncDiv(timestamp_millis, 1000)

\* A mutant of BeginModTime: the oldest sentinel starts at not_before.
BeginModTimeOldestClamped(timestamp_millis, not_before_sec) ==
    IF timestamp_millis = -1 THEN I64_MAX
    ELSE IF timestamp_millis = -2 THEN not_before_sec
    ELSE LET timestamp == TruncDiv(timestamp_millis, 1000)
         IN  IF timestamp < not_before_sec THEN not_before_sec ELSE timestamp

\* let begin_mod_time = if timestamp_millis == -1 { i64::MAX } else if ... ;
BeginModTime(timestamp_millis, not_before_sec) ==
    IF timestamp_millis = -1 THEN I64_MAX
    ELSE IF timestamp_millis = -2 THEN 0
    ELSE LET timestamp == TruncDiv(timestamp_millis, 1000)
         IN  IF timestamp < not_before_sec THEN not_before_sec ELSE timestamp

\* broker::FragmentsRequest { journal, begin_mod_time, page_limit: 1, .. }
FragmentsRequest(collection, partition, timestamp_millis) ==
    [ journal |-> <<collection.collection, partition.name>>,
      begin_mod_time |-> BeginModTime(timestamp_millis, collection.not_before),
      page_limit |-> 1 ]

\* A mutant of OffsetAndModTime: the begin offset for every timestamp.
OffsetAndModTimeBegin(response, timestamp_millis) ==
    IF response # <<>> /\ response[1].spec # <<>>
    THEN <<response[1].spec[1].begin, response[1].spec[1].mod_time>>
    ELSE <<0, 0>>

\* A mutant of OffsetAndModTime: with no fragment, the newest sentinel
\* yields the offset before zero.
OffsetAndModTimeEmptyNewest(response, timestamp_millis) ==
    IF response # <<>> /\ response[1].spec # <<>>
    THEN LET spec == response[1].spec[1]
         IN  IF timestamp_millis = -1
             THEN <<spec.end - 1, spec.mod_time>>
             ELSE <<spec.begin, spec.mod_time>>
    ELSE IF timestamp_millis = -1 THEN <<-1, 0>> ELSE <<0, 0>>

\* let (offset, mod_time) = match response.fragments.get(0) { ... };
OffsetAndModTime(response, timestamp_millis) ==
    IF response # <<>> /\ response[1].spec # <<>>
    THEN LET spec == response[1].spec[1]
         IN  IF timestamp_millis = -1
             THEN <<spec.end - 1, spec.mod_time>>
             ELSE <<spec.begin, spec.mod_time>>
    ELSE <<0, 0>>

\* The broker's page of fragments for a request: in offset order, the
\* fragments modified at or after begin_mod_time and those not yet persisted
\* (of modification time zero), up to page_limit of them.
ListFragments(request) ==
    LET all == fragments[request.journal]
        kept == SelectSeq(all, LAMBDA f : f.mod_time = 0 \/ f.mod_time >= request.begin_mod_time)
    IN  SubSeq(kept, 1, IF Len(kept) < request.page_limit THEN Len(kept) ELSE request.page_limit)

\* A mutant of FetchPartitionOffset: the Collection's partitions are
\* enumerated anew, in place, before the index is looked up.
FetchPartitionOffsetRefreshing(k, c, partition_index, timestamp_millis) ==
    /\ offCalls[k].pc = "idle"
    /\ \A d \in DOMAIN offCalls : d < k => offCalls[d].pc # "idle"
    /\ newCalls[c].outcome = "Some"
    /\ \E listing \in Listings(ListJournals(newCalls[c].collection)) :
         LET collection == [newCalls[c] EXCEPT !.partitions = FetchPartitions(listing)]
             partition == PartitionGet(collection.partitions, partition_index)
             call == [ offCalls[k] EXCEPT
                         !.collection = c,
                         !.partition_index = partition_index,
                         !.timestamp_millis = timestamp_millis ]
         IN  /\ newCalls' = [newCalls EXCEPT ![c] = collection]
             /\ offCalls' = [offCalls EXCEPT ![k] =
                   IF partition = <<>>
                   THEN [call EXCEPT !.pc = "returned", !.outcome = "None"]
                   ELSE [call EXCEPT
                           !.pc = "list_fragments",
                           !.requests = <<FragmentsRequest(collection, partition[1], timestamp_millis)>>]]
    /\ UNCHANGED <<journals, fragments, liveSpecs, registry, unique_md5, default_clock, regCalls>>

\* A caller invokes collection.fetch_partition_offset(partition_index,
\* timestamp_millis) on the Collection that the invocation c returned: None
\* for an index past the end, and the FragmentsRequest otherwise.
FetchPartitionOffset(k, c, partition_index, timestamp_millis) ==
    /\ offCalls[k].pc = "idle"
    /\ \A d \in DOMAIN offCalls : d < k => offCalls[d].pc # "idle"
    /\ newCalls[c].outcome = "Some"
    /\ LET collection == newCalls[c]
           partition == PartitionGet(collection.partitions, partition_index)
           call == [ offCalls[k] EXCEPT
                       !.collection = c,
                       !.partition_index = partition_index,
                       !.timestamp_millis = timestamp_millis ]
       IN  offCalls' = [offCalls EXCEPT ![k] =
             IF partition = <<>>
             THEN [call EXCEPT !.pc = "returned", !.outcome = "None"]
             ELSE [call EXCEPT
                     !.pc = "list_fragments",
                     !.requests = <<FragmentsRequest(collection, partition[1], timestamp_millis)>>]]
    /\ UNCHANGED <<journals, fragments, liveSpecs, registry, unique_md5, default_clock, newCalls, regCalls>>

\* The broker answers the FragmentsRequest, or the request fails; the first
\* entry of a page may come without its fragment spec.
ListFragmentsRespond(k) ==
    /\ offCalls[k].pc = "list_fragments"
    /\ LET call == offCalls[k] IN
       \/ offCalls' = [offCalls EXCEPT ![k] =
             [call EXCEPT !.pc = "returned", !.list_fragments = "Err", !.outcome = "Err"]]
       \/ \E with_spec \in BOOLEAN :
            LET page == ListFragments(call.requests[1])
                response == [ i \in 1 .. Len(page) |->
                                [spec |-> IF with_spec THEN <<page[i]>> ELSE <<>>] ]
                result == OffsetAndModTime(response, call.timestamp_millis)
            IN  /\ ~with_spec => page # <<>>
                /\ offCalls' = [offCalls EXCEPT ![k] =
                      [call EXCEPT !.pc = "returned", !.outcome = "Some",
                                   !.list_fragments = "Ok",
                                   !.response = response,
                                   !.offset = result[1], !.mod_time = result[2]]]
    /\ UNCHANGED <<journals, fragments, liveSpecs, registry, unique_md5, default_clock, newCalls, regCalls>>

\* The Collection that Collection::new returns for the listed journals.
BuiltCollection(collection, listing, built_spec, clock) ==
    NewOutcome([ IdleNew EXCEPT
                   !.pc = "running",
                   !.collection = collection,
                   !.not_before = clock,
                   !.spec = "Some",
                   !.built_spec = <<built_spec>>,
                   !.client_partitions = "Ok",
                   !.partitions = FetchPartitions(listing),
                   !.auth_requests = <<[prefixes |-> <<collection>>]>>,
                   !.list_requests = <<[include |-> collection, token |-> 1]>> ])

\* Offsets are resolved on a Collection of "acme/clicks" that was built
\* from the broker's journals, each with fragments of its own.
InitOffset ==
    /\ journals \in SUBSET
         { [collection |-> "acme/clicks", name |-> part_001, create_revision |-> 3, mod_revision |-> 3],
           [collection |-> "acme/clicks", name |-> part_000, create_revision |-> 5, mod_revision |-> 5] }
    /\ fragments \in [JournalSlots -> FragmentLists]
    /\ \A slot \in JournalSlots :
         (\A j \in journals : <<j.collection, j.name>> # slot) => fragments[slot] = <<>>
    /\ liveSpecs = [ collection \in Collections |->
                       IF collection = "acme/clicks"
                       THEN <<[read_schema_json |-> "", write_schema_json |-> "string-key"]>>
                       ELSE <<>> ]
    /\ default_clock \in ClockSeconds
    /\ \E listing \in Listings(ListJournals("acme/clicks")) :
         newCalls = [ c \in {1} |->
                        BuiltCollection("acme/clicks", listing,
                                        liveSpecs["acme/clicks"][1], default_clock) ]
    /\ offCalls = [k \in 1 .. NumOffsetCalls |-> IdleOffset]
    /\ registry = <<>>
    /\ unique_md5 = TRUE
    /\ regCalls = <<>>

NextOffset ==
    \/ \E k \in DOMAIN offCalls, c \in DOMAIN newCalls :
         \E partition_index \in PartitionIndexes, timestamp_millis \in Timestamps :
            FetchPartitionOffset(k, c, partition_index, timestamp_millis)
    \/ \E k \in DOMAIN offCalls : ListFragmentsRespond(k)

SpecOffset == InitOffset /\ [][NextOffset]_vars

(***************************************************************************)
(* registered_schema_id                                                    *)
(***************************************************************************)
\* registered_schema_id invocations that follow one another.
NumSequentialRegistrations == 3
\* registered_schema_id invocations that may overlap.
NumRegistrations == 2
\* registered_schema_ids invocations, of two registrations each.
NumIdsCalls == 1

\* The keys of a schema object in the order of serde_json's map (a BTreeMap).
SortedKeys == <<"doc", "fields", "name", "type">>

\* A mutant of CanonicalForm: the documentation is kept.
CanonicalFormWithDoc(schema) ==
    << <<"name", schema.name>>, <<"type", schema.type>> >>
    \o (IF schema.fields = "" THEN <<>> ELSE << <<"fields", schema.fields>> >>)
    \o (IF schema.doc = "" THEN <<>> ELSE << <<"doc", schema.doc>> >>)

\* schema.canonical_form(): the attributes name, type and fields, in that
\* order, without the documentation.
CanonicalForm(schema) ==
    << <<"name", schema.name>>, <<"type", schema.type>> >>
    \o (IF schema.fields = "" THEN <<>> ELSE << <<"fields", schema.fields>> >>)

\* serde_json::from_str(text) and Value::to_string(): the properties in the
\* order of their keys.
ValueToString(text) ==
    LET has(key) == \E i \in 1 .. Len(text) : text[i][1] = key
        get(key) == text[CHOOSE i \in 1 .. Len(text) :
                           text[i][1] = key /\ \A k \in i + 1 .. Len(text) : text[k][1] # key]
        keys == SelectSeq(SortedKeys, has)
    IN  [ i \in 1 .. Len(keys) |-> get(keys[i]) ]

\* md5::compute: a digest that tells any two texts apart.
Md5(text) == [md5 |-> text]

\* let schema: serde_json::Value = serde_json::from_str(&schema.canonical_form())
AvroSchemaValue(schema) == ValueToString(CanonicalForm(schema))

\* let schema_md5 = format!("{:x}", md5::compute(&schema.to_string()));
SchemaMd5(schema) == Md5(AvroSchemaValue(schema))

\* The store's rows whose avro_schema_md5 is the digest: select=registry_id.
SelectByMd5(schema_md5) == SelectSeq(registry, LAMBDA row : row.avro_schema_md5 = schema_md5)

\* The row the store makes of an insert: registry_id is serial and
\* avro_schema_md5 is generated from avro_schema.
InsertedRow(avro_schema, catalog_name) ==
    [ registry_id |-> Len(registry) + 1,
      avro_schema |-> avro_schema,
      avro_schema_md5 |-> Md5(avro_schema),
      catalog_name |-> catalog_name ]

IdleRegistration ==
    [ pc |-> "idle", catalog_name |-> "", schema |-> NoSchema,
      avro_schema |-> <<>>, schema_md5 |-> Md5(<<>>),
      lookups |-> 0, rows |-> <<>>, inserts |-> 0, inserted |-> FALSE,
      outcome |-> "pending", error |-> "", registry_id |-> 0,
      sibling |-> 0 ]

\* futures::try_join!: when the registration r has failed, its sibling
\* future, if it has not completed, is dropped with whatever request it has
\* in flight.  A registration invoked on its own has no sibling.
TryJoin(calls, r) ==
    LET s == calls[r].sibling IN
    IF s # 0 /\ calls[r].outcome = "Err" /\ calls[s].pc \in {"lookup", "insert"}
    THEN [calls EXCEPT ![s].pc = IF calls[s].pc = "insert" THEN "dropped_insert" ELSE "dropped"]
    ELSE calls

\* A mutant of LookupOutcome: a lock in the process; while another
\* invocation has an insert of the digest in flight, no insert is sent and
\* the invocation waits.
LookupOutcomeLocked(call, rows) ==
    IF rows # <<>>
    THEN [call EXCEPT !.pc = "returned", !.rows = <<Len(rows)>>, !.outcome = "Ok",
                      !.registry_id = rows[Len(rows)].registry_id]
    ELSE IF \E d \in DOMAIN regCalls :
               regCalls[d].pc = "insert" /\ regCalls[d].schema_md5 = call.schema_md5
    THEN call
    ELSE [call EXCEPT !.pc = "insert", !.rows = <<0>>, !.inserts = @ + 1]

\* if let Some(Row { registry_id }) = rows.pop() { return Ok(registry_id); }
\* and, with no row, the insert is sent.  The field rows keeps the number
\* of rows the lookup returned.
LookupOutcome(call, rows) ==
    IF rows # <<>>
    THEN [call EXCEPT !.pc = "returned", !.rows = <<Len(rows)>>, !.outcome = "Ok",
                      !.registry_id = rows[Len(rows)].registry_id]
    ELSE [call EXCEPT !.pc = "insert", !.rows = <<0>>, !.inserts = @ + 1]

\* A mutant of InsertOutcome: a rejected insert yields a default id.
InsertOutcomeDefaultId(call, rows, rejected) ==
    IF rejected
    THEN [call EXCEPT !.pc = "returned", !.outcome = "Ok", !.registry_id = 0]
    ELSE [call EXCEPT !.pc = "returned", !.outcome = "Ok", !.inserted = TRUE,
                      !.registry_id = rows[Len(rows)].registry_id]

\* A mutant of InsertOutcome: after a rejected insert the lookup is sent
\* again.
InsertOutcomeRetryLookup(call, rows, rejected) ==
    IF rejected
    THEN [call EXCEPT !.pc = "lookup", !.lookups = @ + 1]
    ELSE [call EXCEPT !.pc = "returned", !.outcome = "Ok", !.inserted = TRUE,
                      !.registry_id = rows[Len(rows)].registry_id]

\* error_for_status()...context("inserting new registered schema")?, and
\* let registry_id = rows.pop().unwrap().registry_id; Ok(registry_id)
InsertOutcome(call, rows, rejected) ==
    IF rejected
    THEN [call EXCEPT !.pc = "returned", !.outcome = "Err", !.error = "conflict"]
    ELSE [call EXCEPT !.pc = "returned", !.outcome = "Ok", !.inserted = TRUE,
                      !.registry_id = rows[Len(rows)].registry_id]

\* A caller invokes registered_schema_id(client, catalog_name, schema): the
\* digest is computed and the lookup by avro_schema_md5 is sent.
RegisteredSchemaId(r, catalog_name, schema) ==
    /\ regCalls[r].pc = "idle"
    /\ \A d \in DOMAIN regCalls : d < r => regCalls[d].pc # "idle"
    /\ regCalls' = [regCalls EXCEPT ![r] =
          [ IdleRegistration EXCEPT
              !.pc = "lookup",
              !.catalog_name = catalog_name,
              !.schema = schema,
              !.avro_schema = AvroSchemaValue(schema),
              !.schema_md5 = SchemaMd5(schema),
              !.lookups = 1 ]]
    /\ UNCHANGED <<journals, fragments, liveSpecs, registry, unique_md5, default_clock,
                   newCalls, offCalls>>

\* The same, by a caller that waits for every earlier invocation to return.
RegisteredSchemaIdInTurn(r, catalog_name, schema) ==
    /\ \A d \in DOMAIN regCalls : regCalls[d].pc \in {"idle", "returned"}
    /\ RegisteredSchemaId(r, catalog_name, schema)

\* The store answers the lookup, or the lookup fails.
LookupRespond(r) ==
    /\ regCalls[r].pc = "lookup"
    /\ \/ regCalls' = TryJoin([regCalls EXCEPT ![r] =
             [@ EXCEPT !.pc = "returned", !.outcome = "Err", !.error = "lookup"]], r)
       \/ regCalls' = TryJoin([regCalls EXCEPT ![r] =
             LookupOutcome(regCalls[r], SelectByMd5(regCalls[r].schema_md5))], r)
    /\ UNCHANGED <<journals, fragments, liveSpecs, registry, unique_md5, default_clock,
                   newCalls, offCalls>>

\* The store performs the insert and answers with the new row, or rejects
\* it for its digest being present, or the insert fails on its way.
InsertRespond(r) ==
    /\ regCalls[r].pc = "insert"
    /\ LET call == regCalls[r]
           row == InsertedRow(call.avro_schema, call.catalog_name)
       IN
       \/ /\ regCalls' = TryJoin([regCalls EXCEPT ![r] =
                [call EXCEPT !.pc = "returned", !.outcome = "Err", !.error = "insert"]], r)
          /\ UNCHANGED registry
       \/ /\ unique_md5
          /\ SelectSeq(registry, LAMBDA x : x.avro_schema_md5 = row.avro_schema_md5) # <<>>
          /\ regCalls' = TryJoin([regCalls EXCEPT ![r] = InsertOutcome(call, <<>>, TRUE)], r)
          /\ UNCHANGED registry
       \/ /\ unique_md5 =>
               SelectSeq(registry, LAMBDA x : x.avro_schema_md5 = row.avro_schema_md5) = <<>>
          /\ registry' = Append(registry, row)
          /\ regCalls' = TryJoin([regCalls EXCEPT ![r] = InsertOutcome(call, <<row>>, FALSE)], r)
    /\ UNCHANGED <<journals, fragments, liveSpecs, unique_md5, default_clock,
                   newCalls, offCalls>>

\* The store receives the insert of a registration that was dropped while
\* the insert was in flight: it performs it, unless its digest is present
\* and must be unique, or the insert never arrives.
AbandonedInsert(r) ==
    /\ regCalls[r].pc = "dropped_insert"
    /\ LET call == regCalls[r]
           row == InsertedRow(call.avro_schema, call.catalog_name)
       IN
       \/ UNCHANGED registry
       \/ /\ unique_md5 =>
               SelectSeq(registry, LAMBDA x : x.avro_schema_md5 = row.avro_schema_md5) = <<>>
          /\ registry' = Append(registry, row)
    /\ regCalls' = [regCalls EXCEPT ![r].pc = "dropped"]
    /\ UNCHANGED <<journals, fragments, liveSpecs, unique_md5, default_clock,
                   newCalls, offCalls>>

\* A mutant of RegisteredSchemaIdsOutcome: the ids are returned when both
\* registrations have completed, whether they succeeded or not.
RegisteredSchemaIdsOutcomeJoined(key, value) ==
    IF key.pc = "returned" /\ value.pc = "returned"
    THEN [outcome |-> "Ok", key_id |-> key.registry_id, value_id |-> value.registry_id]
    ELSE [outcome |-> "pending"]

\* registered_schema_ids(&self, client): the result of try_join! over the
\* registration of the key schema and that of the value schema.
RegisteredSchemaIdsOutcome(key, value) ==
    IF key.outcome = "Err" \/ value.outcome = "Err" THEN [outcome |-> "Err"]
    ELSE IF key.outcome = "Ok" /\ value.outcome = "Ok"
    THEN [outcome |-> "Ok", key_id |-> key.registry_id, value_id |-> value.registry_id]
    ELSE [outcome |-> "pending"]

\* A caller invokes collection.registered_schema_ids(client) on the
\* Collection that the invocation c returned: the first poll of try_join!
\* sends the lookup of the key schema (registration r) and the lookup of
\* the value schema (registration r + 1), both for self.spec.name.
RegisteredSchemaIds(r, c) ==
    /\ r % 2 = 1
    /\ r + 1 \in DOMAIN regCalls
    /\ regCalls[r].pc = "idle"
    /\ \A d \in DOMAIN regCalls : d < r => regCalls[d].pc # "idle"
    /\ newCalls[c].outcome = "Some"
    /\ LET lookup(schema, sibling) ==
              [ IdleRegistration EXCEPT
                  !.pc = "lookup",
                  !.catalog_name = newCalls[c].collection,
                  !.schema = schema,
                  !.avro_schema = AvroSchemaValue(schema),
                  !.schema_md5 = SchemaMd5(schema),
                  !.lookups = 1,
                  !.sibling = sibling ]
       IN  regCalls' = [regCalls EXCEPT
                          ![r] = lookup(newCalls[c].key_schema, r + 1),
                          ![r + 1] = lookup(newCalls[c].value_schema, r)]
    /\ UNCHANGED <<journals, fragments, liveSpecs, registry, unique_md5, default_clock,
                   newCalls, offCalls>>

InitRegistry ==
    /\ journals = {}
    /\ fragments = [slot \in JournalSlots |-> <<>>]
    /\ liveSpecs = [collection \in Collections |-> <<>>]
    /\ registry = <<>>
    /\ unique_md5 \in BOOLEAN
    /\ default_clock \in {2}
    /\ newCalls = <<>>
    /\ offCalls = <<>>
    /\ regCalls = [r \in 1 .. NumRegistrations |-> IdleRegistration]

NextRegistry ==
    \/ \E r \in DOMAIN regCalls, catalog_name \in Collections, schema \in Schemas :
         RegisteredSchemaId(r, catalog_name, schema)
    \/ \E r \in DOMAIN regCalls : LookupRespond(r)
    \/ \E r \in DOMAIN regCalls : InsertRespond(r)

\* Invocations that may overlap.
SpecRegistry == InitRegistry /\ [][NextRegistry]_vars

InitSequentialRegistry ==
    /\ journals = {}
    /\ fragments = [slot \in JournalSlots |-> <<>>]
    /\ liveSpecs = [collection \in Collections |-> <<>>]
    /\ registry = <<>>
    /\ unique_md5 \in BOOLEAN
    /\ default_clock \in {2}
    /\ newCalls = <<>>
    /\ offCalls = <<>>
    /\ regCalls = [r \in 1 .. NumSequentialRegistrations |-> IdleRegistration]

NextSequentialRegistry ==
    \/ \E r \in DOMAIN regCalls, catalog_name \in Collections, schema \in Schemas :
         RegisteredSchemaIdInTurn(r, catalog_name, schema)
    \/ \E r \in DOMAIN regCalls : LookupRespond(r)
    \/ \E r \in DOMAIN regCalls : InsertRespond(r)

\* Invocations that follow one another.
SpecSequentialRegistry == InitSequentialRegistry /\ [][NextSequentialRegistry]_vars

\* The schemas of a Collection are registered: the Collection has any two
\* of the schemas as its key and value schema, and the table is empty or
\* holds the schema of a string.
InitIds ==
    /\ journals = {}
    /\ fragments = [slot \in JournalSlots |-> <<>>]
    /\ liveSpecs = [ collection \in Collections |->
                       IF collection = "acme/clicks"
                       THEN <<[read_schema_json |-> "", write_schema_json |-> "string-key"]>>
                       ELSE <<>> ]
    /\ default_clock \in {2}
    /\ \E key_schema \in Schemas, value_schema \in Schemas :
         newCalls = [ c \in {1} |->
                        [ BuiltCollection("acme/clicks", <<>>,
                                          liveSpecs["acme/clicks"][1], default_clock)
                            EXCEPT !.key_schema = key_schema,
                                   !.value_schema = value_schema ] ]
    /\ offCalls = <<>>
    /\ registry \in { <<>>,
                       << [ registry_id |-> 1,
                            avro_schema |-> AvroSchemaValue(SchemaString),
                            avro_schema_md5 |-> SchemaMd5(SchemaString),
                            catalog_name |-> "acme/visits" ] >> }
    /\ unique_md5 = TRUE
    /\ regCalls = [r \in 1 .. 2 * NumIdsCalls |-> IdleRegistration]

NextIds ==
    \/ \E r \in DOMAIN regCalls, c \in DOMAIN newCalls : RegisteredSchemaIds(r, c)
    \/ \E r \in DOMAIN regCalls : LookupRespond(r)
    \/ \E r \in DOMAIN regCalls : InsertRespond(r)
    \/ \E r \in DOMAIN regCalls : AbandonedInsert(r)

SpecIds == InitIds /\ [][NextIds]_vars

(***************************************************************************)
(* A Collection in use while the broker creates journals and another       *)
(* Collection is assembled.                                                *)
(***************************************************************************)
\* The timestamps and the indexes that the callers of a Collection in use pass.
UseTimestamps == {-1, 1000}
UseIndexes == {0, 1}

\* One Collection of "acme/clicks" was built when the broker held part-001,
\* and another is yet to be assembled; registered_schema_ids is invoked once,
\* which makes two registrations.
InitUse ==
    /\ journals = { [collection |-> "acme/clicks", name |-> part_001,
                     create_revision |-> 3, mod_revision |-> 3] }
    /\ fragments = [ slot \in JournalSlots |->
                       IF slot[1] = "acme/clicks"
                       THEN << [begin |-> 0, end |-> 5, mod_time |-> 1] >>
                       ELSE <<>> ]
    /\ liveSpecs = [ collection \in Collections |->
                       IF collection = "acme/clicks"
                       THEN <<[read_schema_json |-> "", write_schema_json |-> "string-key"]>>
                       ELSE <<>> ]
    /\ default_clock \in {1}
    /\ \E listing \in Listings(ListJournals("acme/clicks")) :
         newCalls = [ c \in 1 .. 2 |->
                        IF c = 1
                        THEN BuiltCollection("acme/clicks", listing,
                                             liveSpecs["acme/clicks"][1], default_clock)
                        ELSE IdleNew ]
    /\ offCalls = [k \in 1 .. NumOffsetCalls |-> IdleOffset]
    /\ registry = <<>>
    /\ unique_md5 = TRUE
    /\ regCalls = [r \in 1 .. 2 |-> IdleRegistration]

NextUse ==
    \/ \E c \in DOMAIN newCalls : New(c, "acme/clicks")
    \/ \E c \in DOMAIN newCalls : FetchSpecRespond(c)
    \/ \E c \in DOMAIN newCalls : AuthRespond(c)
    \/ \E c \in DOMAIN newCalls : ListRespond(c)
    \/ \E name \in JournalNames :
         CreateJournal(<<"acme/clicks", name>>, 5)
    \/ \E k \in DOMAIN offCalls, c \in DOMAIN newCalls :
         \E partition_index \in UseIndexes, timestamp_millis \in UseTimestamps :
            FetchPartitionOffset(k, c, partition_index, timestamp_millis)
    \/ \E k \in DOMAIN offCalls : ListFragmentsRespond(k)
    \/ \E r \in DOMAIN regCalls, c \in DOMAIN newCalls : RegisteredSchemaIds(r, c)
    \/ \E r \in DOMAIN regCalls : LookupRespond(r)
    \/ \E r \in DOMAIN regCalls : InsertRespond(r)
    \/ \E r \in DOMAIN regCalls : AbandonedInsert(r)

SpecUse == InitUse /\ [][NextUse]_vars

(***************************************************************************)
(* The partition order                                                     *)
(***************************************************************************)
\* The name s is lexicographically before the name t.
NameBefore(s, t) ==
    \E i \in 1 .. Len(t) :
        /\ \A k \in 1 .. i - 1 : k <= Len(s) /\ s[k] = t[k]
        /\ i > Len(s) \/ s[i] < t[i]

\* p comes before q in the order on (create_revision, journal name).
OrderedBefore(p, q) ==
    \/ p.create_revision < q.create_revision
    \/ p.create_revision = q.create_revision /\ NameBefore(p.name, q.name)

Elements(seq) == { seq[i] : i \in 1 .. Len(seq) }

IsPrefix(s, t) == Len(s) <= Len(t) /\ SubSeq(t, 1, Len(s)) = s

\* The journals of the end-to-end scenario: revisions [5, 3, 5] of
\* [part-002, part-000, part-001].
ScenarioJournals ==
    { [collection |-> "acme/clicks", name |-> part_002, create_revision |-> 5, mod_revision |-> 5],
      [collection |-> "acme/clicks", name |-> part_000, create_revision |-> 3, mod_revision |-> 3],
      [collection |-> "acme/clicks", name |-> part_001, create_revision |-> 5, mod_revision |-> 5] }

\* C1: whatever the order of the broker's listing, fetch_partitions yields the
\* listed journals in ascending order of (create_revision, journal name), ties
\* of the revision broken by the name: one sequence for one set of journals.
\* The scenario's journals come out as part-000, part-001, part-002.
C1_PartitionOrder ==
    \A c \in DOMAIN newCalls :
        LET call == newCalls[c]
            p == call.partitions
        IN  call.client_partitions = "Ok" =>
              /\ Elements(p) = { Partition(j) : j \in ListJournals(call.collection) }
              /\ Len(p) = Cardinality(ListJournals(call.collection))
              /\ \A i, k \in 1 .. Len(p) : i < k => OrderedBefore(p[i], p[k])
              /\ ListJournals(call.collection) = ScenarioJournals =>
                    [i \in 1 .. Len(p) |-> p[i].name] = <<part_000, part_001, part_002>>
              /\ \A d \in DOMAIN newCalls :
                    (newCalls[d].client_partitions = "Ok"
                        /\ newCalls[d].collection = call.collection)
                    => newCalls[d].partitions = p

\* The scenario's journals have been listed and ordered.
C1_Witness ==
    \E c \in DOMAIN newCalls :
        /\ newCalls[c].client_partitions = "Ok"
        /\ ListJournals(newCalls[c].collection) = ScenarioJournals
        /\ Len(newCalls[c].partitions) = 3
        /\ newCalls[c].partitions[1].name = part_000
        /\ newCalls[c].partitions[2].create_revision = newCalls[c].partitions[3].create_revision

\* The snapshot t holds the journals of the snapshot s and journals created
\* at greater revisions than every journal of s.
GrewFrom(s, t) ==
    /\ Elements(s) \subseteq Elements(t)
    /\ \A new \in Elements(t) \ Elements(s) :
         \A old \in Elements(s) : new.create_revision > old.create_revision

\* C2: of two Collections built for one collection, the later having the
\* journals of the earlier and journals of greater create_revision, the
\* partitions of the earlier are a prefix of the partitions of the later:
\* every journal keeps its index and the new ones are appended.
C2_IndexStability ==
    \A c, d \in DOMAIN newCalls :
        (/\ newCalls[c].outcome = "Some"
         /\ newCalls[d].outcome = "Some"
         /\ newCalls[c].collection = newCalls[d].collection
         /\ GrewFrom(newCalls[c].partitions, newCalls[d].partitions))
        => IsPrefix(newCalls[c].partitions, newCalls[d].partitions)

\* Two Collections, the later built after a journal of a greater revision
\* was created.
C2_Witness ==
    \E c, d \in DOMAIN newCalls :
        /\ newCalls[c].outcome = "Some"
        /\ newCalls[d].outcome = "Some"
        /\ newCalls[c].collection = newCalls[d].collection
        /\ newCalls[c].partitions # <<>>
        /\ Len(newCalls[d].partitions) > Len(newCalls[c].partitions)
        /\ GrewFrom(newCalls[c].partitions, newCalls[d].partitions)
        /\ NameBefore(newCalls[d].partitions[Len(newCalls[d].partitions)].name,
                      newCalls[c].partitions[1].name)

\* C5: when the specification lookup succeeds with no row, Collection::new
\* returns Ok(None), not an error, whatever the broker holds for that name
\* and whatever became of the authorization and the listing.
C5_Absence ==
    \A c \in DOMAIN newCalls :
        LET call == newCalls[c] IN
        (call.pc = "returned" /\ call.spec # "Err" /\ liveSpecs[call.collection] = <<>>)
        => (call.outcome = "None" /\ call.error = "")

\* Not found is returned for a name that has journals, after the listing failed.
C5_Witness ==
    \E c \in DOMAIN newCalls :
        /\ newCalls[c].pc = "returned"
        /\ newCalls[c].outcome = "None"
        /\ liveSpecs[newCalls[c].collection] = <<>>
        /\ ListJournals(newCalls[c].collection) # {}
        /\ newCalls[c].client_partitions = "Err"

\* The schema conversion of the invocation's built spec succeeds.
SchemaConverts(call) ==
    call.built_spec # <<>> /\ JsonSchemaToAvro(SelectJsonSchema(call.built_spec[1])).ok

\* C12: Collection::new returns a Collection only when the lookup returned a
\* row, the authorization succeeded, the listing succeeded with every
\* journal carrying its spec and route, and the schema was converted, and
\* then with a partition for every listed journal; when a stage fails or a
\* journal lacks its spec or route, no Collection is returned.  A listing of
\* no journals is a success with no partitions.
C12_AllOrNothing ==
    \A c \in DOMAIN newCalls :
        LET call == newCalls[c]
            listed == ListJournals(call.collection)
        IN
        /\ call.outcome = "Some" =>
              /\ call.pc = "returned"
              /\ call.spec = "Some" /\ liveSpecs[call.collection] # <<>>
              /\ call.list_requests # <<>>
              /\ call.client_partitions = "Ok" /\ call.client_error = ""
              /\ SchemaConverts(call)
              /\ Len(call.partitions) = Cardinality(listed)
              /\ Elements(call.partitions) = { Partition(j) : j \in listed }
        /\ (call.pc = "returned"
               /\ (call.spec # "Some" \/ call.client_partitions # "Ok" \/ ~SchemaConverts(call)))
              => call.outcome \in {"Err", "None"}
        /\ call.client_error = "journal" => (listed # {} /\ call.outcome # "Some")
        /\ (call.pc = "returned" /\ call.spec = "Some" /\ call.client_partitions = "Ok"
               /\ SchemaConverts(call) /\ listed = {})
              => (call.outcome = "Some" /\ call.partitions = <<>>)

\* Of several listed journals one lacked its spec or its route, all else
\* having succeeded: an error is returned.
C12_Witness ==
    \E c \in DOMAIN newCalls :
        /\ newCalls[c].pc = "returned"
        /\ newCalls[c].spec = "Some"
        /\ SchemaConverts(newCalls[c])
        /\ Cardinality(ListJournals(newCalls[c].collection)) >= 2
        /\ newCalls[c].client_error = "journal"
        /\ newCalls[c].outcome = "Err"

\* C13: a Collection that was returned is left as it is by every step
\* there is: by fetch_partition_offset and registered_schema_ids on it, by
\* the broker creating journals and by other invocations of Collection::new.
\* Its partitions, key_schema, value_schema, spec and not_before stay, each
\* index names the journal it named, and a journal created since is no
\* partition of it.
C13_SnapshotUnchanged ==
    [][ \A c \in DOMAIN newCalls :
          newCalls[c].outcome = "Some" =>
            /\ newCalls'[c].outcome = "Some"
            /\ newCalls'[c].partitions = newCalls[c].partitions
            /\ newCalls'[c].key_schema = newCalls[c].key_schema
            /\ newCalls'[c].value_schema = newCalls[c].value_schema
            /\ newCalls'[c].built_spec = newCalls[c].built_spec
            /\ newCalls'[c].not_before = newCalls[c].not_before
            /\ \A i \in 1 .. Len(newCalls[c].partitions) :
                  newCalls'[c].partitions[i].name = newCalls[c].partitions[i].name
            /\ \A j \in journals' \ journals :
                  Partition(j) \notin Elements(newCalls'[c].partitions) ]_vars

\* An offset was resolved and the schemas were registered on a Collection
\* of one partition after the broker created a second journal, which is a
\* partition of the Collection assembled since.
C13_Witness ==
    /\ newCalls[1].outcome = "Some" /\ Len(newCalls[1].partitions) = 1
    /\ Cardinality(journals) = 2
    /\ newCalls[2].outcome = "Some" /\ Len(newCalls[2].partitions) = 2
    /\ \E k \in DOMAIN offCalls :
         /\ offCalls[k].collection = 1
         /\ offCalls[k].pc = "returned"
         /\ offCalls[k].partition_index = 1
         /\ offCalls[k].outcome = "None"
    /\ regCalls[1].sibling = 2
    /\ regCalls[1].catalog_name = newCalls[1].collection
    /\ RegisteredSchemaIdsOutcome(regCalls[1], regCalls[2]).outcome = "Ok"

(***************************************************************************)
(* The offset resolver                                                     *)
(***************************************************************************)
\* The Collection an invocation of fetch_partition_offset was made on.
CollectionOf(call) == newCalls[call.collection]

\* The invocation names a partition of its Collection.
ValidIndex(call) ==
    call.pc # "idle" /\ call.partition_index < Len(CollectionOf(call).partitions)

\* The journal of the partition the invocation names.
JournalOf(call) ==
    << CollectionOf(call).collection,
       CollectionOf(call).partitions[call.partition_index + 1].name >>

\* The invocation returned Some((offset, mod_time)) for the fragment F that
\* the broker's page began with.
ReturnedFragment(call) ==
    /\ call.pc = "returned"
    /\ call.outcome = "Some"
    /\ call.response # <<>>
    /\ call.response[1].spec # <<>>

\* Whole seconds of a timestamp in milliseconds.
Seconds(millis) == IF millis >= 0 THEN millis \div 1000 ELSE -((-millis) \div 1000)

Sentinels == {-1, -2}

\* C6: for an index at or past the number of partitions, and every
\* timestamp, fetch_partition_offset returns Ok(None), and it sends no
\* FragmentsRequest.
C6_OutOfRange ==
    \A k \in DOMAIN offCalls :
        LET call == offCalls[k] IN
        (call.pc # "idle" /\ call.partition_index >= Len(CollectionOf(call).partitions))
        => (call.pc = "returned" /\ call.outcome = "None" /\ call.requests = <<>>)

\* The index just past the end of a Collection that has partitions, with the
\* newest sentinel.
C6_Witness ==
    \E k \in DOMAIN offCalls :
        /\ offCalls[k].pc = "returned"
        /\ offCalls[k].outcome = "None"
        /\ offCalls[k].timestamp_millis = -1
        /\ CollectionOf(offCalls[k]).partitions # <<>>
        /\ offCalls[k].partition_index = Len(CollectionOf(offCalls[k]).partitions)

\* C7 as stated: with the timestamp -2, on a partition that has fragments,
\* the offset returned is 0 and the modification time is that of the
\* earliest fragment.
C7_OldestIsZero ==
    \A k \in DOMAIN offCalls :
        LET call == offCalls[k] IN
        (ValidIndex(call) /\ ReturnedFragment(call) /\ call.timestamp_millis = -2
            /\ fragments[JournalOf(call)] # <<>>)
        => (call.offset = 0 /\ call.mod_time = fragments[JournalOf(call)][1].mod_time)

\* C7, amended: with the timestamp -2, on a partition that has fragments,
\* the offset returned is the begin offset of the earliest fragment, which
\* is 0 only if that fragment begins the journal, and the modification time
\* is that of the earliest fragment.
C7_OldestIsBegin ==
    \A k \in DOMAIN offCalls :
        LET call == offCalls[k] IN
        (ValidIndex(call) /\ ReturnedFragment(call) /\ call.timestamp_millis = -2
            /\ fragments[JournalOf(call)] # <<>>)
        => /\ call.offset = fragments[JournalOf(call)][1].begin
           /\ call.mod_time = fragments[JournalOf(call)][1].mod_time
           /\ call.offset = 0 <=> fragments[JournalOf(call)][1].begin = 0

\* The oldest offset of a journal whose earliest fragment begins past offset
\* zero and is followed by another.
C7_Witness ==
    \E k \in DOMAIN offCalls :
        LET call == offCalls[k] IN
        /\ ValidIndex(call)
        /\ ReturnedFragment(call)
        /\ call.timestamp_millis = -2
        /\ Len(fragments[JournalOf(call)]) = 2
        /\ call.offset = 4
        /\ call.mod_time = 2
        /\ CollectionOf(call).not_before = 2

\* C8: for a valid index one FragmentsRequest is sent, for the journal of
\* that partition, with page_limit 1 and begin_mod_time i64::MAX for the
\* timestamp -1 and 0 for -2; with a fragment F heading the page the result
\* is (F.end - 1, F.mod_time) for -1 and (F.begin, F.mod_time) otherwise.
C8_RequestAndResult ==
    \A k \in DOMAIN offCalls :
        LET call == offCalls[k] IN
        ValidIndex(call) =>
          /\ Len(call.requests) = 1
          /\ call.requests[1].journal = JournalOf(call)
          /\ call.requests[1].page_limit = 1
          /\ call.timestamp_millis = -1 => call.requests[1].begin_mod_time = I64_MAX
          /\ call.timestamp_millis = -2 => call.requests[1].begin_mod_time = 0
          /\ ReturnedFragment(call) =>
               LET F == call.response[1].spec[1] IN
               /\ call.mod_time = F.mod_time
               /\ call.timestamp_millis = -1 => call.offset = F.end - 1
               /\ call.timestamp_millis # -1 => call.offset = F.begin

\* The newest offset, of a fragment whose last offset is not its first.
C8_Witness ==
    \E k \in DOMAIN offCalls :
        LET call == offCalls[k] IN
        /\ ValidIndex(call)
        /\ ReturnedFragment(call)
        /\ call.timestamp_millis = -1
        /\ call.offset = call.response[1].spec[1].end - 1
        /\ call.offset # call.response[1].spec[1].begin

\* C9: for a valid index and a literal timestamp, the begin_mod_time sent is
\* the greater of the timestamp's seconds and not_before; when the seconds
\* are below not_before, the request and the result are those of the
\* timestamp not_before * 1000.
C9_ClampToNotBefore ==
    \A k \in DOMAIN offCalls :
        LET call == offCalls[k]
            not_before == CollectionOf(call).not_before
            floor == not_before * 1000
        IN
        (ValidIndex(call) /\ call.timestamp_millis \notin Sentinels) =>
          /\ call.requests[1].begin_mod_time >= not_before
          /\ call.requests[1].begin_mod_time >= Seconds(call.timestamp_millis)
          /\ call.requests[1].begin_mod_time \in {not_before, Seconds(call.timestamp_millis)}
          /\ Seconds(call.timestamp_millis) < not_before =>
               /\ call.requests =
                    << FragmentsRequest(CollectionOf(call),
                         CollectionOf(call).partitions[call.partition_index + 1], floor) >>
               /\ call.requests[1].begin_mod_time = Seconds(floor)
               /\ (call.pc = "returned" /\ call.outcome = "Some") =>
                    <<call.offset, call.mod_time>> = OffsetAndModTime(call.response, floor)

\* A literal timestamp below a floor of two seconds, answered with the
\* fragment modified at the third second.
C9_Witness ==
    \E k \in DOMAIN offCalls :
        LET call == offCalls[k] IN
        /\ ValidIndex(call)
        /\ ReturnedFragment(call)
        /\ call.timestamp_millis = 999
        /\ CollectionOf(call).not_before = 2
        /\ call.requests[1].begin_mod_time = 2
        /\ call.mod_time = 3

\* C10 as stated: for every timestamp, the sentinels included, the
\* begin_mod_time sent is not below not_before, and no offset is returned
\* of a fragment modified before not_before.
C10_NeverBelowNotBefore ==
    \A k \in DOMAIN offCalls :
        LET call == offCalls[k] IN
        ValidIndex(call) =>
          /\ call.requests[1].begin_mod_time >= CollectionOf(call).not_before
          /\ ReturnedFragment(call) =>
               call.response[1].spec[1].mod_time >= CollectionOf(call).not_before

\* C11: for a valid index, when the fragment listing succeeds with an empty
\* page or with a first entry that carries no fragment spec, the result is
\* Some((0, 0)) and not an error, for every timestamp, -1 included.
C11_EmptyPageIsZero ==
    \A k \in DOMAIN offCalls :
        LET call == offCalls[k] IN
        (/\ ValidIndex(call)
         /\ call.list_fragments = "Ok"
         /\ call.response = <<>> \/ call.response[1].spec = <<>>)
        => /\ call.pc = "returned"
           /\ call.outcome = "Some"
           /\ <<call.offset, call.mod_time>> = <<0, 0>>

\* The newest offset of a journal whose page of fragments came back empty.
C11_Witness ==
    \E k \in DOMAIN offCalls :
        LET call == offCalls[k] IN
        /\ ValidIndex(call)
        /\ call.list_fragments = "Ok"
        /\ call.response = <<>>
        /\ call.timestamp_millis = -1
        /\ call.outcome = "Some"
        /\ call.offset = 0

(***************************************************************************)
(* The schema registry                                                     *)
(***************************************************************************)
\* Two schemas of one canonical form: they differ at most in documentation.
SameCanonicalForm(s, t) == s.name = t.name /\ s.type = t.type /\ s.fields = t.fields

\* The invocation returned Ok(registry_id).
Registered(call) == call.pc = "returned" /\ call.outcome = "Ok"

\* The invocations whose insert the store performed, for the form of schema.
Inserters(schema) ==
    { r \in DOMAIN regCalls :
        regCalls[r].inserted /\ SameCanonicalForm(regCalls[r].schema, schema) }

\* C3 as stated: of invocations that follow one another, two with schemas
\* of one canonical form return the same id and perform exactly one insert
\* between them; two with schemas of different canonical forms return
\* different ids.
C3_OneInsertPerPair ==
    \A c, d \in DOMAIN regCalls :
        (c # d /\ Registered(regCalls[c]) /\ Registered(regCalls[d])) =>
          IF SameCanonicalForm(regCalls[c].schema, regCalls[d].schema)
          THEN /\ regCalls[c].registry_id = regCalls[d].registry_id
               /\ regCalls[c].inserted # regCalls[d].inserted
          ELSE regCalls[c].registry_id # regCalls[d].registry_id

\* C3, amended: of invocations that follow one another, two with schemas of
\* one canonical form return the same id and perform at most one insert
\* between them, none when an earlier invocation registered that form: one
\* insert is performed for the form in all, and the table holds one row of
\* its digest.  Two with schemas of different canonical forms return
\* different ids.
C3_ContentAddressing ==
    \A c, d \in DOMAIN regCalls :
        (c # d /\ Registered(regCalls[c]) /\ Registered(regCalls[d])) =>
          IF SameCanonicalForm(regCalls[c].schema, regCalls[d].schema)
          THEN /\ regCalls[c].registry_id = regCalls[d].registry_id
               /\ ~(regCalls[c].inserted /\ regCalls[d].inserted)
               /\ Cardinality(Inserters(regCalls[c].schema)) = 1
               /\ Len(SelectSeq(registry,
                        LAMBDA row : row.registry_id = regCalls[c].registry_id)) = 1
          ELSE regCalls[c].registry_id # regCalls[d].registry_id

\* A schema registered for one collection, found again with documentation
\* for another collection, and a schema of another form.
C3_Witness ==
    \E c, d, e \in DOMAIN regCalls :
        /\ Registered(regCalls[c]) /\ Registered(regCalls[d]) /\ Registered(regCalls[e])
        /\ regCalls[c].schema = SchemaString /\ regCalls[c].catalog_name = "acme/clicks"
        /\ regCalls[d].schema = SchemaStringDoc /\ regCalls[d].catalog_name = "acme/visits"
        /\ regCalls[c].inserted /\ ~regCalls[d].inserted
        /\ regCalls[c].registry_id = regCalls[d].registry_id
        /\ regCalls[e].schema = SchemaRecordBA
        /\ regCalls[e].registry_id # regCalls[c].registry_id

\* C4: with a store that rejects an insert whose digest is present, however
\* invocations overlap, no two rows of the table have one digest, at most
\* one insert is performed for a schema, and all invocations that return an
\* id for it return the same id.
C4_StoreArbitrates ==
    unique_md5 =>
      /\ \A i, k \in 1 .. Len(registry) :
            i # k => registry[i].avro_schema_md5 # registry[k].avro_schema_md5
      /\ \A c, d \in DOMAIN regCalls :
            (c # d /\ SameCanonicalForm(regCalls[c].schema, regCalls[d].schema)) =>
              /\ ~(regCalls[c].inserted /\ regCalls[d].inserted)
              /\ (Registered(regCalls[c]) /\ Registered(regCalls[d]))
                    => regCalls[c].registry_id = regCalls[d].registry_id

\* Two invocations for one unseen schema both sent the insert: the store
\* performed one and rejected the other.
C4_Witness ==
    \E c, d \in DOMAIN regCalls :
        /\ unique_md5
        /\ regCalls[c].schema = regCalls[d].schema
        /\ Registered(regCalls[c]) /\ regCalls[c].inserted
        /\ regCalls[d].pc = "returned" /\ regCalls[d].outcome = "Err"
        /\ regCalls[d].inserts = 1 /\ regCalls[d].error = "conflict"

(***************************************************************************)
(* The paired registration                                                 *)
(***************************************************************************)
\* The registration r is that of the key schema of a registered_schema_ids
\* invocation, and r + 1 that of its value schema.
KeyRegistrations == { r \in DOMAIN regCalls : regCalls[r].sibling = r + 1 }

\* C14: registered_schema_ids sends the lookup of the key schema and that
\* of the value schema together; it returns (key_id, value_id) only when
\* both registrations succeeded, each id being that of the row of its
\* schema's digest, and an error when either failed; when it returns ids
\* for schemas of one canonical form, the two ids are equal.
C14_PairedRegistration ==
    \A r \in KeyRegistrations :
        LET key == regCalls[r]
            value == regCalls[r + 1]
            ids == RegisteredSchemaIdsOutcome(key, value)
            row(id) == SelectSeq(registry, LAMBDA x : x.registry_id = id)
        IN
        /\ key.lookups = 1 /\ value.lookups = 1
        /\ key.catalog_name = value.catalog_name
        /\ (key.outcome = "Err" \/ value.outcome = "Err") => ids.outcome = "Err"
        /\ ids.outcome = "Ok" =>
              /\ Registered(key) /\ Registered(value)
              /\ Len(row(ids.key_id)) = 1
              /\ row(ids.key_id)[1].avro_schema_md5 = SchemaMd5(key.schema)
              /\ Len(row(ids.value_id)) = 1
              /\ row(ids.value_id)[1].avro_schema_md5 = SchemaMd5(value.schema)
              /\ SameCanonicalForm(key.schema, value.schema) <=> ids.key_id = ids.value_id

\* The ids of a key and a value schema of one canonical form were returned:
\* the value schema was inserted, and the lookup of the key schema was
\* answered after that insert.
C14_Witness ==
    \E r \in KeyRegistrations :
        LET ids == RegisteredSchemaIdsOutcome(regCalls[r], regCalls[r + 1]) IN
        /\ regCalls[r].schema = SchemaString
        /\ regCalls[r + 1].schema = SchemaStringDoc
        /\ ids.outcome = "Ok"
        /\ ids.key_id = ids.value_id
        /\ regCalls[r + 1].inserted /\ ~regCalls[r].inserted

(***************************************************************************)
(* The two branches of Collection::new                                     *)
(***************************************************************************)
\* The branch that authorizes and enumerates has completed.
ClientBranchDone(call) == call.client_partitions \in {"Err", "Ok"}

\* The specification branch has completed.
SpecBranchDone(call) == call.spec \in {"Err", "None", "Some"}

\* C15 as stated: once the specification lookup has yielded no rows,
\* Collection::new has returned not-found, whether or not the branch that
\* authorizes and enumerates has completed.
C15_NotFoundWithoutWaiting ==
    \A c \in DOMAIN newCalls :
        newCalls[c].spec = "None" =>
            (newCalls[c].pc = "returned" /\ newCalls[c].outcome = "None")

\* C15, amended: once the specification lookup has yielded no rows,
\* Collection::new returns not-found when the branch that authorizes and
\* enumerates has completed too, with success or with failure, and not
\* before.
C15_NotFoundAfterJoin ==
    \A c \in DOMAIN newCalls :
        LET call == newCalls[c] IN
        call.spec = "None" =>
          /\ call.pc = "returned" <=> ClientBranchDone(call)
          /\ call.pc = "returned" => (call.outcome = "None" /\ call.error = "")
          /\ call.pc # "returned" => call.outcome = "pending"

\* The lookup has yielded no rows and the invocation has not returned: the
\* journal listing has been sent and is not answered.
C15_Witness ==
    \E c \in DOMAIN newCalls :
        /\ newCalls[c].spec = "None"
        /\ newCalls[c].pc = "running"
        /\ newCalls[c].outcome = "pending"
        /\ newCalls[c].client_partitions = "list"
        /\ newCalls[c].list_requests # <<>>

\* C16: while both branches of an invocation are under way either may take
\* its next step, so they complete in either order; the invocation has
\* returned, a Collection or a failure, exactly when both branches are
\* done; and when one branch has failed the other still takes its steps.
C16_BothBranchesComplete ==
    \A c \in DOMAIN newCalls :
        LET call == newCalls[c]
            clientStep == AuthRespond(c) \/ ListRespond(c)
        IN
        /\ call.pc = "returned" <=> (SpecBranchDone(call) /\ ClientBranchDone(call))
        /\ call.outcome \in {"Some", "Err"} => (SpecBranchDone(call) /\ ClientBranchDone(call))
        /\ (call.pc # "idle" /\ ~SpecBranchDone(call)) => ENABLED FetchSpecRespond(c)
        /\ (call.pc # "idle" /\ ~ClientBranchDone(call)) => ENABLED clientStep

\* The specification lookup has failed and the invocation has not
\* returned: the other branch has gone on to send the journal listing.
C16_Witness ==
    \E c \in DOMAIN newCalls :
        /\ newCalls[c].spec = "Err"
        /\ newCalls[c].pc = "running"
        /\ newCalls[c].client_partitions = "list"
        /\ newCalls[c].list_requests # <<>>
        /\ newCalls[c].outcome = "pending"

(***************************************************************************)
(* Retries and the race of the registry                                    *)
(***************************************************************************)
\* C17: an invocation of registered_schema_id sends one lookup and at most
\* one insert, the insert only after its lookup returned no row; when the
\* insert is rejected or fails the invocation has returned an error, having
\* sent no other lookup.
C17_NothingRetried ==
    \A r \in DOMAIN regCalls :
        LET call == regCalls[r] IN
        /\ call.lookups <= 1 /\ call.inserts <= 1
        /\ call.pc # "idle" => call.lookups = 1
        /\ call.inserts = 1 => (call.lookups = 1 /\ call.rows = <<0>>)
        /\ (call.rows # <<>> /\ call.rows # <<0>>) =>
              (call.inserts = 0 /\ call.pc = "returned" /\ call.outcome = "Ok")
        /\ call.error \in {"conflict", "insert", "lookup"} =>
              /\ call.pc = "returned" /\ call.outcome = "Err"
              /\ call.lookups = 1
              /\ call.inserts = (IF call.error = "lookup" THEN 0 ELSE 1)

\* An insert was rejected for its digest being present, and the invocation
\* returned the error: the row a second lookup would find is in the table.
C17_Witness ==
    \E r \in DOMAIN regCalls :
        /\ regCalls[r].error = "conflict"
        /\ regCalls[r].pc = "returned"
        /\ regCalls[r].lookups = 1
        /\ regCalls[r].rows = <<0>>
        /\ regCalls[r].inserts = 1
        /\ SelectByMd5(regCalls[r].schema_md5) # <<>>

\* C18: nothing in the process prevents the race of check and insert.  When
\* an invocation has missed on its lookup and sent its insert, which the
\* store has not performed, the lookup of another invocation for the same
\* digest can return no row too, and that invocation then sends an insert
\* for the digest while the first insert is in flight.
C18_RaceNotPrevented ==
    \A c, d \in DOMAIN regCalls :
        (/\ c # d
         /\ regCalls[c].pc = "insert"
         /\ regCalls[d].pc = "lookup"
         /\ regCalls[c].schema_md5 = regCalls[d].schema_md5
         /\ SelectByMd5(regCalls[d].schema_md5) = <<>>)
        => ENABLED ( /\ LookupRespond(d)
                     /\ regCalls'[d].pc = "insert"
                     /\ regCalls'[d].rows = <<0>>
                     /\ regCalls'[d].inserts = 1
                     /\ regCalls'[c].pc = "insert" )

\* Two invocations for one schema that the table does not hold: the lookup
\* of each returned no row, and each has its insert in flight.
C18_Witness ==
    \E c, d \in DOMAIN regCalls :
        /\ c # d
        /\ regCalls[c].schema = regCalls[d].schema
        /\ regCalls[c].schema_md5 = regCalls[d].schema_md5
        /\ SelectByMd5(regCalls[c].schema_md5) = <<>>
        /\ regCalls[c].rows = <<0>> /\ regCalls[d].rows = <<0>>
        /\ regCalls[c].pc = "insert" /\ regCalls[d].pc = "insert"
        /\ regCalls[c].inserts = 1 /\ regCalls[d].inserts = 1

(***************************************************************************)
(* The outcome of Collection::new and its requests                         *)
(***************************************************************************)
\* C19: the outcome of a returned invocation follows one order: the error
\* of the specification lookup, whatever the other branch did; else
\* not-found for no row, even when the authorization or the listing
\* failed; else the error of the authorization or listing; else the error
\* of the schema conversion; else the Collection.
C19_OutcomePriority ==
    \A c \in DOMAIN newCalls :
        LET call == newCalls[c] IN
        call.pc = "returned" =>
          IF call.spec = "Err"
          THEN call.outcome = "Err" /\ call.error = "spec"
          ELSE IF call.spec = "None"
          THEN call.outcome = "None" /\ call.error = ""
          ELSE IF call.client_partitions = "Err"
          THEN /\ call.outcome = "Err"
               /\ call.error = call.client_error
               /\ call.error \in {"auth", "list", "journal"}
          ELSE IF ~SchemaConverts(call)
          THEN call.outcome = "Err" /\ call.error = "schema"
          ELSE /\ call.outcome = "Some" /\ call.error = ""
               /\ call.key_schema # NoSchema /\ call.value_schema # NoSchema

\* The authorization failed for a collection whose schema has no Avro form:
\* the error returned is that of the authorization.
C19_Witness ==
    \E c \in DOMAIN newCalls :
        /\ newCalls[c].pc = "returned"
        /\ newCalls[c].spec = "Some"
        /\ ~SchemaConverts(newCalls[c])
        /\ newCalls[c].client_partitions = "Err"
        /\ newCalls[c].outcome = "Err"
        /\ newCalls[c].error = "auth"

\* The authorization of the invocation has succeeded.
Authorized(call) ==
    \/ call.client_partitions \in {"list", "Ok"}
    \/ call.client_partitions = "Err" /\ call.client_error \in {"list", "journal"}

\* C20: every invocation of Collection::new sends one authorization
\* request, with the collection's name as its only prefix, also when an
\* earlier invocation for the collection was authorized; the journal
\* listing is sent once the authorization has succeeded, for that
\* collection and with the token of this invocation's authorization; when
\* the authorization fails no listing is sent.
C20_OwnAuthorization ==
    \A c \in DOMAIN newCalls :
        LET call == newCalls[c] IN
        call.pc # "idle" =>
          /\ call.auth_requests = <<[prefixes |-> <<call.collection>>]>>
          /\ Len(call.list_requests) <= 1
          /\ call.list_requests # <<>> <=> Authorized(call)
          /\ call.list_requests # <<>> =>
                call.list_requests = <<[include |-> call.collection, token |-> c]>>
          /\ call.client_error = "auth" =>
                (call.client_partitions = "Err" /\ call.list_requests = <<>>)

\* After an invocation for a collection was authorized and sent its
\* listing, a later invocation for that collection requested its own
\* authorization, which failed: it sent no listing.
C20_Witness ==
    \E c, d \in DOMAIN newCalls :
        /\ c < d
        /\ newCalls[c].collection = newCalls[d].collection
        /\ newCalls[c].outcome = "Some"
        /\ newCalls[c].list_requests # <<>>
        /\ Len(newCalls[d].auth_requests) = 1
        /\ newCalls[d].client_error = "auth"
        /\ newCalls[d].list_requests = <<>>

====
